---- MODULE Spec2Model ----
(***************************************************************************)
(* Model of src/core/parsers/ncm.py: NCMParser, the NetEase Cloud Music    *)
(* link parser.  One invocation of a handler is modelled: the handler's    *)
(* position (pc), its local variables (frame), the outbound HTTP requests   *)
(* it has issued, the base-class factory calls it has made, and its        *)
(* outcome (result or raised exception).  The remote API (server) is the   *)
(* environment: for the song asked about it holds one detail response and  *)
(* one playback response.                                                   *)
(*                                                                         *)
(* Message, title and label texts are Chinese in the source; the model    *)
(* keeps an ASCII rendering of each, one distinct string per source text   *)
(* (the full-width parentheses of line 112 are written "(" and ")").       *)
(* _parse_short (lines 32-37) only forwards to BaseParser's                *)
(* parse_with_redirect and is not modelled.                                *)
(***************************************************************************)
EXTENDS Integers, Sequences, FiniteSets, TLC

VARIABLES pc, searched, server, requests, frame, calls, result, error

vars == <<pc, searched, server, requests, frame, calls, result, error>>

-----------------------------------------------------------------------------
(* Bounds of the model.                                                    *)

MaxArtists == 2

MaxDurationMs == 2200

-----------------------------------------------------------------------------
(* Python / JSON values.  A dict is a record over the keys of its schema;  *)
(* a key the dict does not hold maps to Absent.  None is JSON null.        *)

Absent == [tag |-> "absent"]

None == [tag |-> "None"]

Str(s) == [tag |-> "str", v |-> s]

Num(n) == [tag |-> "int", v |-> n]

List(seq) == [tag |-> "list", v |-> seq]

Dict(rec) == [tag |-> "dict", v |-> rec]

\* dict.get(key, default): the default only when the key is missing; a key
\* present with value None yields None.
get(d, key, default) == IF d[key] = Absent THEN default ELSE d[key]

\* Python truthiness, as used by `if x` / `if not x`.
Truthy(x) ==
    CASE x.tag = "None" -> FALSE
      [] x.tag = "str" -> x.v # ""
      [] x.tag = "int" -> x.v # 0
      [] x.tag = "list" -> x.v # <<>>
      [] x.tag = "dict" -> TRUE
      [] OTHER -> FALSE

\* str(x) as an f-string renders it.
PyStr(x) ==
    CASE x.tag = "None" -> "None"
      [] x.tag = "int" -> ToString(x.v)
      [] OTHER -> x.v

\* {} as the default of song.get("album", {})
EmptyAlbum == Dict([name |-> Absent, picUrl |-> Absent])

SeqsUpTo(S, n) == UNION {[1..k -> S] : k \in 0..n}

-----------------------------------------------------------------------------
(* Exceptions and their messages.                                          *)

NoError == [type |-> "none", msg |-> ""]

Raise(type, msg) == [type |-> type, msg |-> msg]

MsgDetailHttp(status) == "[NCM] song detail request failed HTTP " \o ToString(status)

MsgPlayHttp(status) == "[NCM] playback url request failed HTTP " \o ToString(status)

MsgNotFound == "[NCM] song not found"

MsgNoPlayData == "[NCM] failed to get playback data"

MsgRestricted == "[NCM] song needs VIP or is copyright restricted, cannot get playback url"

MsgUnavailable(code) == "[NCM] cannot get playback url (code=" \o PyStr(code) \o ")"

-----------------------------------------------------------------------------
(* URLs built by _parse_song.                                              *)

DetailUrl(song_id) ==
    "https://music.163.com/api/song/detail/?id=" \o song_id \o "&ids=[" \o song_id \o "]"

PlayUrl(song_id) ==
    "https://music.163.com/api/song/enhance/player/url?ids=[" \o song_id \o "]&br=320000"

CanonicalUrl(song_id) == "https://music.163.com/#/song?id=" \o song_id

CoverSuffix == "?param=640y640"

\* Variant of HttpFailed: status > 400.
HttpFailedStrict(status) == status > 400

\* resp.status >= 400
HttpFailed(status) == status >= 400

-----------------------------------------------------------------------------
(* _parse_song, lines 58-62: the song list of the detail response.         *)

\* line 58
Songs(detail_json) == get(detail_json.v, "songs", List(<<>>))

\* Variant of SongsMissing: tests `songs is None` and lets an empty list through.
SongsMissingIsNone(songs) == songs.tag = "None"

\* line 59: `if not songs`
SongsMissing(songs) == ~Truthy(songs)

\* line 62: songs[0]; indexing None or an empty list raises
FirstSongError(songs) ==
    IF songs.tag # "list" THEN Raise("TypeError", "'NoneType' object is not subscriptable")
    ELSE IF songs.v = <<>> THEN Raise("IndexError", "list index out of range")
    ELSE NoError

-----------------------------------------------------------------------------
(* _parse_song, lines 62-74: field extraction from the first song.         *)

\* line 63
Title(song) == get(song.v, "name", Str(""))

\* line 64: song.get("alias", [""])[0] if song.get("alias") else ""
SubTitle(song) ==
    IF Truthy(get(song.v, "alias", None))
    THEN get(song.v, "alias", List(<<Str("")>>)).v[1]
    ELSE Str("")

\* song.get("album", {}), the receiver of the .get calls of lines 65 and 66
Album(song) == get(song.v, "album", EmptyAlbum)

\* line 65
AlbumName(song) == get(Album(song).v, "name", Str(""))

\* lines 66-68
CoverUrl(song) ==
    LET cover_url == get(Album(song).v, "picUrl", Str(""))
    IN  IF Truthy(cover_url) THEN Str(cover_url.v \o CoverSuffix) ELSE cover_url

\* line 69
DurationMs(song) == get(song.v, "duration", Num(0))

\* line 72
ArList(song) == get(song.v, "artists", List(<<>>))

\* ar.get("name", "") for each ar of ar_list, in list order
ArNames(ar_list) == [i \in 1..Len(ar_list.v) |-> get(ar_list.v[i].v, "name", Str(""))]

RECURSIVE Join(_, _)
\* sep.join(names) over a sequence of str values
Join(sep, names) ==
    IF names = <<>> THEN ""
    ELSE IF Len(names) = 1 THEN names[1].v
    ELSE names[1].v \o sep \o Join(sep, Tail(names))

\* line 73
AuthorName(ar_list) == Str(Join(" / ", ArNames(ar_list)))

\* line 74
AuthorAvatar(ar_list) ==
    IF Truthy(ar_list) THEN get(ar_list.v[1].v, "img1v1Url", Str("")) ELSE Str("")

\* The exception lines 62-74 raise on this song, NoError when they run through.
\* Statements are evaluated in source order, so the first failing one decides.
MetadataError(song) ==
    IF Album(song).tag # "dict"
    THEN Raise("AttributeError", "'NoneType' object has no attribute 'get'")
    ELSE IF ArList(song).tag # "list"
    THEN Raise("TypeError", "'NoneType' object is not iterable")
    ELSE IF \E i \in 1..Len(ArList(song).v) : ArNames(ArList(song))[i].tag # "str"
    THEN Raise("TypeError", "sequence item: expected str instance, NoneType found")
    ELSE NoError

UnboundFrame ==
    [song_id |-> Absent, title |-> Absent, sub_title |-> Absent, album_name |-> Absent,
     cover_url |-> Absent, duration_ms |-> Absent, author_name |-> Absent,
     author_avatar |-> Absent, audio_url |-> Absent, author |-> Absent,
     audio |-> Absent, contents |-> Absent]

\* The locals bound by lines 62-74 when no statement raises.
Metadata(f, song) ==
    [f EXCEPT !.title = Title(song),
              !.sub_title = SubTitle(song),
              !.album_name = AlbumName(song),
              !.cover_url = CoverUrl(song),
              !.duration_ms = DurationMs(song),
              !.author_name = AuthorName(ArList(song)),
              !.author_avatar = AuthorAvatar(ArList(song))]

-----------------------------------------------------------------------------
(* _parse_song, lines 83-96: the playback response.                        *)

\* line 83
PlayData(play_json) == get(play_json.v, "data", List(<<>>))

\* line 84: `if not play_data`
PlayDataMissing(play_data) == ~Truthy(play_data)

\* line 87
PlayInfo(play_data) == play_data.v[1]

\* line 88: play_info.get("url"), None when the key is missing
AudioUrl(play_info) == get(play_info.v, "url", None)

\* Variant of AudioUrlMissing: tests `audio_url is None` and lets "" through.
AudioUrlMissingIsNone(audio_url) == audio_url.tag = "None"

\* line 91: `if not audio_url`
AudioUrlMissing(audio_url) == ~Truthy(audio_url)

\* Variant of PlayCode: defaults a missing code to 0.
PlayCodeDefaultZero(play_info) == get(play_info.v, "code", Num(0))

\* line 92
PlayCode(play_info) == get(play_info.v, "code", Num(-1))

\* Variant of IsRestrictedCode: tests for 403.
IsRestrictedCode403(code) == code.tag = "int" /\ code.v = 403

\* line 93: code == 404
IsRestrictedCode(code) == code.tag = "int" /\ code.v = 404

\* lines 91-96: the exception raised when audio_url is falsy
PlayUrlError(play_info) ==
    IF IsRestrictedCode(PlayCode(play_info))
    THEN Raise("ParseException", MsgRestricted)
    ELSE Raise("ParseException", MsgUnavailable(PlayCode(play_info)))

-----------------------------------------------------------------------------
(* Factories of the base class (BaseParser) and the result assembly.       *)

create_author(name, avatar) == [name |-> name, avatar |-> avatar]

create_audio_content(url, duration) == [type |-> "audio", url |-> url, duration |-> duration]

create_image_contents(urls) == [i \in 1..Len(urls) |-> [type |-> "image", url |-> urls[i]]]

\* Variant of DurationSeconds: rounds to the nearest second.
DurationSecondsRounded(duration_ms) == (duration_ms + 500) \div 1000

\* line 102: duration_ms // 1000
DurationSeconds(duration_ms) == duration_ms \div 1000

\* line 99
Author(f) ==
    IF Truthy(f.author_name) THEN create_author(f.author_name.v, f.author_avatar) ELSE None

\* Variant of Contents: the audio item is appended before the cover.
ContentsAudioFirst(cover_url, audio) ==
    <<audio>>
        \o (IF Truthy(cover_url) THEN create_image_contents(<<cover_url.v>>) ELSE <<>>)

\* lines 105-108
Contents(cover_url, audio) ==
    (IF Truthy(cover_url) THEN create_image_contents(<<cover_url.v>>) ELSE <<>>)
        \o <<audio>>

\* line 112
FormatTitle(title, sub_title) ==
    PyStr(title) \o (IF Truthy(sub_title) THEN "(" \o sub_title.v \o ")" ELSE "")

\* line 113
FormatText(album_name) ==
    IF Truthy(album_name) THEN Str("album: " \o album_name.v) ELSE None

\* The factory calls of lines 99-111, in call order.
AssemblyCalls(f) ==
    (IF Truthy(f.author_name) THEN <<"create_author">> ELSE <<>>)
        \o <<"create_audio_content">>
        \o (IF Truthy(f.cover_url) THEN <<"create_image_contents">> ELSE <<>>)
        \o <<"result">>

\* lines 111-118
SongResult(f, author, contents) ==
    [tag |-> "result",
     title |-> FormatTitle(f.title, f.sub_title),
     text |-> FormatText(f.album_name),
     author |-> author,
     contents |-> contents,
     timestamp |-> None,
     url |-> CanonicalUrl(f.song_id.v)]

\* lines 123-130; create_audio_content(url) is called without a duration
DirectMp3Result(url) ==
    [tag |-> "result",
     title |-> "NetEase Cloud Music",
     text |-> Str("direct audio link"),
     contents |-> <<[type |-> "audio", url |-> url]>>,
     url |-> url]

\* Variant of PrivateOuterResult: the query string of the link is dropped.
PrivateOuterResultNoQuery(private_url) ==
    [tag |-> "result",
     title |-> "NetEase Cloud Music (private direct link)",
     text |-> Str("direct audio link"),
     contents |-> <<[type |-> "audio", url |-> "https://music.163.com/song/media/outer/url"]>>,
     url |-> "https://music.163.com/song/media/outer/url"]

\* lines 138-146
PrivateOuterResult(private_url) ==
    [tag |-> "result",
     title |-> "NetEase Cloud Music (private direct link)",
     text |-> Str("direct audio link"),
     contents |-> <<[type |-> "audio", url |-> private_url]>>,
     url |-> private_url]

NoResult == [tag |-> "none"]

NoMatch == [pattern |-> "none"]

-----------------------------------------------------------------------------
(* The environment: URLs the dispatcher hands to the handlers, and the     *)
(* responses the remote API can give.                                       *)

\* Matches of the three patterns of lines 40-42.
SongMatches ==
    {[pattern |-> "music.163.com/song", group0 |-> "music.163.com/song?id=186016",
      song_id |-> "186016"],
     [pattern |-> "y.music.163.com", group0 |-> "y.music.163.com/m/song?app=1&id=5",
      song_id |-> "5"]}

\* Matches of the pattern of line 120.
DirectMp3Matches ==
    {[pattern |-> "music.126.net", group0 |-> "https://m701.music.126.net/2024/a.mp3"],
     [pattern |-> "music.126.net", group0 |-> "http://m7.music.126.net/b.mp3?vuutv=x"]}

\* Matches of the pattern of lines 132-135.
PrivateOuterMatches ==
    {[pattern |-> "music.163.com/song/media/outer/url",
      group0 |-> "https://music.163.com/song/media/outer/url?id=186016.mp3"],
     [pattern |-> "music.163.com/song/media/outer/url",
      group0 |-> "http://music.163.com/song/media/outer/url?id=5"]}

\* Statuses a response can carry: 101 (switching protocols), 2xx, 3xx, 4xx, 5xx.
OkStatuses == {101, 200, 399}

FailStatuses == {400, 404, 500}

Song(name, alias, album, duration, artists) ==
    Dict([name |-> name, alias |-> alias, album |-> album, duration |-> duration,
          artists |-> artists])

AlbumOf(name, picUrl) == Dict([name |-> name, picUrl |-> picUrl])

Artist(name, avatar) == Dict([name |-> name, img1v1Url |-> avatar])

Names == {Absent, None, Str(""), Str("Song")}

Aliases == {Absent, None, List(<<>>), List(<<Str("Alt")>>), List(<<Str("")>>)}

AlbumNames == {Absent, None, Str(""), Str("Album")}

PicUrls == {Absent, None, Str(""), Str("http://example/cover.jpg")}

Albums == {Absent, None} \cup {AlbumOf(n, p) : n \in AlbumNames, p \in PicUrls}

ArtistNames == {Absent, None, Str(""), Str("A"), Str("B")}

ArtistAvatars == {Absent, None, Str("http://example/a.jpg")}

Artists == {Artist(n, a) : n \in ArtistNames, a \in ArtistAvatars}

ArtistLists == {Absent, None} \cup {List(l) : l \in SeqsUpTo(Artists, MaxArtists)}

Durations == {Num(n) : n \in 0..MaxDurationMs} \cup {Num(125499)}

DefaultAlbum == AlbumOf(Str("Album"), Str("http://example/cover.jpg"))

DefaultArtists == List(<<Artist(Str("A"), Str("http://example/a.jpg"))>>)

DecoySong ==
    Song(Str("Other"), Absent, AlbumOf(Str("Other album"), Str("http://example/other.jpg")),
         Num(61000), List(<<Artist(Str("Z"), Absent)>>))

\* Songs that vary title, alias, album and cover.
AlbumSongs ==
    {Song(n, al, ab, d, ar) : n \in Names, al \in Aliases, ab \in Albums,
                              d \in {Absent, None, Num(125499)},
                              ar \in {Absent, None, List(<<>>), DefaultArtists}}

\* Songs that vary the artist list.
ArtistSongs ==
    {Song(Str("Song"), Absent, ab, Num(125499), ar) :
        ab \in {Absent, DefaultAlbum}, ar \in ArtistLists}

\* Songs that vary the duration.
DurationSongs ==
    {Song(Str("Song"), Absent, DefaultAlbum, d, DefaultArtists) : d \in Durations}

FewSongs ==
    {Song(Str("Song"), List(<<Str("Alt")>>), DefaultAlbum, Num(125499), DefaultArtists),
     Song(Absent, Absent, Absent, Absent, Absent),
     Song(Str("Song"), Absent, None, Num(999), None)}

Response(status, json) == [status |-> status, json |-> json]

DetailJson(songs) == Dict([songs |-> songs])

\* A failed response's body is never read; it is an error object without
\* the `songs` / `data` key.
FailedDetailResponses == {Response(st, DetailJson(Absent)) : st \in FailStatuses}

SongLists(songs) == {List(<<s>>) : s \in songs} \cup {List(<<s, DecoySong>>) : s \in songs}

EmptySongLists == {Absent, None, List(<<>>)}

PlayEntry(url, code) == Dict([url |-> url, code |-> code])

PlayUrls == {Absent, None, Str(""), Str("http://m701.music.126.net/x.mp3")}

PlayCodes == {Absent, None, Num(200), Num(404), Num(-110), Num(0)}

PlayEntries == {PlayEntry(u, c) : u \in PlayUrls, c \in PlayCodes}

DecoyEntry == PlayEntry(Str("http://m701.music.126.net/decoy.mp3"), Num(200))

PlayJson(data) == Dict([data |-> data])

PlayLists ==
    {Absent, None, List(<<>>)}
        \cup {List(<<e>>) : e \in PlayEntries} \cup {List(<<e, DecoyEntry>>) : e \in PlayEntries}

FailedPlayResponses == {Response(st, PlayJson(Absent)) : st \in FailStatuses}

AllPlayResponses ==
    FailedPlayResponses \cup {Response(st, PlayJson(d)) : st \in OkStatuses, d \in PlayLists}

FewPlayResponses ==
    {Response(200, PlayJson(List(<<PlayEntry(Str("http://m701.music.126.net/x.mp3"), Num(200))>>))),
     Response(200, PlayJson(List(<<PlayEntry(None, Num(404))>>))),
     Response(500, PlayJson(Absent))}

Servers ==
    [detail : FailedDetailResponses
                \cup {Response(st, DetailJson(l)) :
                        st \in OkStatuses, l \in EmptySongLists \cup SongLists(FewSongs)},
     play : AllPlayResponses]
    \cup
    [detail : {Response(200, DetailJson(List(<<s>>))) :
                 s \in AlbumSongs \cup ArtistSongs \cup DurationSongs},
     play : FewPlayResponses]

-----------------------------------------------------------------------------
(* The handlers.                                                           *)

Init ==
    /\ pc = "idle"
    /\ searched = NoMatch
    /\ server \in Servers
    /\ requests = <<>>
    /\ frame = UnboundFrame
    /\ calls = <<>>
    /\ result = NoResult
    /\ error = NoError

\* lines 43-52: the handler is entered and issues the detail request.
ParseSong ==
    /\ pc = "idle"
    /\ \E m \in SongMatches :
        /\ searched' = m
        /\ frame' = [frame EXCEPT !.song_id = Str(m.song_id)]
        /\ requests' = Append(requests, DetailUrl(m.song_id))
    /\ pc' = "await_detail"
    /\ UNCHANGED <<server, calls, result, error>>

\* lines 52-77: the detail response arrives; on success the playback request
\* is issued.
DetailResponse ==
    /\ pc = "await_detail"
    /\ LET resp == server.detail
           songs == Songs(resp.json)
           err == IF HttpFailed(resp.status)
                  THEN Raise("ClientError", MsgDetailHttp(resp.status))
                  ELSE IF SongsMissing(songs)
                  THEN Raise("ParseException", MsgNotFound)
                  ELSE IF FirstSongError(songs) # NoError
                  THEN FirstSongError(songs)
                  ELSE MetadataError(songs.v[1])
       IN  IF err # NoError
           THEN /\ pc' = "raised"
                /\ error' = err
                /\ UNCHANGED <<frame, requests>>
           ELSE /\ pc' = "await_play"
                /\ frame' = Metadata(frame, songs.v[1])
                /\ requests' = Append(requests, PlayUrl(frame.song_id.v))
                /\ UNCHANGED error
    /\ UNCHANGED <<searched, server, calls, result>>

\* lines 77-118: the playback response arrives; the result is assembled.
PlayResponse ==
    /\ pc = "await_play"
    /\ LET resp == server.play
           play_data == PlayData(resp.json)
           err == IF HttpFailed(resp.status)
                  THEN Raise("ClientError", MsgPlayHttp(resp.status))
                  ELSE IF PlayDataMissing(play_data)
                  THEN Raise("ParseException", MsgNoPlayData)
                  ELSE IF AudioUrlMissing(AudioUrl(PlayInfo(play_data)))
                  THEN PlayUrlError(PlayInfo(play_data))
                  ELSE NoError
       IN  IF err # NoError
           THEN /\ pc' = "raised"
                /\ error' = err
                /\ UNCHANGED <<frame, calls, result>>
           ELSE LET audio_url == AudioUrl(PlayInfo(play_data))
                    author == Author(frame)
                IN  IF frame.duration_ms.tag # "int"
                    THEN \* line 102: None // 1000, after line 99 has run
                         /\ pc' = "raised"
                         /\ error' = Raise("TypeError",
                                "unsupported operand type(s) for //: 'NoneType' and 'int'")
                         /\ frame' = [frame EXCEPT !.audio_url = audio_url,
                                                   !.author = author]
                         /\ calls' = calls \o (IF Truthy(frame.author_name)
                                               THEN <<"create_author">> ELSE <<>>)
                         /\ UNCHANGED result
                    ELSE LET audio == create_audio_content(audio_url.v,
                                          DurationSeconds(frame.duration_ms.v))
                             contents == Contents(frame.cover_url, audio)
                         IN  /\ pc' = "returned"
                             /\ frame' = [frame EXCEPT !.audio_url = audio_url,
                                                       !.author = author,
                                                       !.audio = audio,
                                                       !.contents = contents]
                             /\ calls' = calls \o AssemblyCalls(frame)
                             /\ result' = SongResult(frame, author, contents)
                             /\ UNCHANGED error
    /\ UNCHANGED <<searched, server, requests>>

\* lines 120-130
ParseDirectMp3 ==
    /\ pc = "idle"
    /\ \E m \in DirectMp3Matches :
        /\ searched' = m
        /\ result' = DirectMp3Result(m.group0)
    /\ calls' = calls \o <<"create_audio_content", "result">>
    /\ pc' = "returned"
    /\ UNCHANGED <<server, requests, frame, error>>

\* lines 132-146
ParsePrivateOuter ==
    /\ pc = "idle"
    /\ \E m \in PrivateOuterMatches :
        /\ searched' = m
        /\ result' = PrivateOuterResult(m.group0)
    /\ calls' = calls \o <<"create_audio_content", "result">>
    /\ pc' = "returned"
    /\ UNCHANGED <<server, requests, frame, error>>

Next ==
    \/ ParseSong
    \/ DetailResponse
    \/ PlayResponse
    \/ ParseDirectMp3
    \/ ParsePrivateOuter

Spec == Init /\ [][Next]_vars

-----------------------------------------------------------------------------
(* Properties.                                                             *)

InSong == searched \in SongMatches

Finished == pc \in {"returned", "raised"}

\* The detail response has been handled.
DetailHandled == InSong /\ pc # "await_detail"

\* The detail response is a success carrying a non-empty song list.
DetailHasSong ==
    /\ server.detail.status < 400
    /\ server.detail.json.v.songs.tag = "list"
    /\ server.detail.json.v.songs.v # <<>>

TheSong == server.detail.json.v.songs.v[1].v

\* The playback response has been handled and its first entry was read.
PlayEntryHandled ==
    /\ InSong /\ Finished /\ Len(requests) = 2
    /\ server.play.status < 400
    /\ server.play.json.v.data.tag = "list"
    /\ server.play.json.v.data.v # <<>>

TheEntry == server.play.json.v.data.v[1].v

EntryHasNoUrl == TheEntry.url \in {Absent, None, Str("")}

RestrictedError == [type |-> "ParseException", msg |-> MsgRestricted]

ContentCalls == {"create_audio_content", "create_image_contents", "result"}

\* C1: a successful detail response whose song list is missing or empty ends
\* the handler with the not-found ParseException, and the only request ever
\* issued is the detail request.
C1_NotFoundNoPlayback ==
    (/\ DetailHandled
     /\ server.detail.status < 400
     /\ server.detail.json.v.songs \in {Absent, List(<<>>)})
    => /\ pc = "raised"
       /\ error = [type |-> "ParseException", msg |-> MsgNotFound]
       /\ requests = <<DetailUrl(searched.song_id)>>
       /\ result = NoResult

C1_Witness ==
    /\ DetailHandled
    /\ server.detail.status = 200
    /\ server.detail.json.v.songs = List(<<>>)
    /\ pc = "raised"

\* C2 as stated: whenever the first playback entry has code 404 the handler
\* raises the restricted ParseException, never the generic one and never a result.
C2_Code404AlwaysRestricted ==
    (PlayEntryHandled /\ TheEntry.code = Num(404))
    => (pc = "raised" /\ error = RestrictedError /\ result = NoResult)

\* C2 amended: when the first playback entry has no url (absent, null or
\* empty) and code 404, the handler raises the restricted ParseException,
\* never the generic one and never a result.
C2_NoUrlCode404Restricted ==
    (PlayEntryHandled /\ EntryHasNoUrl /\ TheEntry.code = Num(404))
    => (pc = "raised" /\ error = RestrictedError /\ result = NoResult)

C2_Witness ==
    /\ PlayEntryHandled /\ EntryHasNoUrl /\ TheEntry.code = Num(404)
    /\ error = RestrictedError

\* The text an f-string gives the code of an entry; -1 when it has no code.
CodeText(code) ==
    IF code = Absent THEN "-1" ELSE IF code = None THEN "None" ELSE ToString(code.v)

\* C3: when the first playback entry has no url and a code other than 404, the
\* handler raises the generic unavailable ParseException whose message carries
\* that code (-1 when the entry has no code), never the restricted one.
C3_UnavailableCarriesCode ==
    (PlayEntryHandled /\ EntryHasNoUrl /\ TheEntry.code # Num(404))
    => /\ pc = "raised"
       /\ error.type = "ParseException"
       /\ error.msg = "[NCM] cannot get playback url (code=" \o CodeText(TheEntry.code) \o ")"
       /\ error.msg # MsgRestricted
       /\ result = NoResult

C3_Witness ==
    /\ PlayEntryHandled /\ EntryHasNoUrl /\ TheEntry.code = Absent
    /\ error.msg = "[NCM] cannot get playback url (code=-1)"

\* C4: a factory or result call of _parse_song happens only after the detail
\* request returned a non-empty song list and then the playback request
\* returned a non-empty url in its first entry; a raised handler has no
\* result and made no content item.
C4_ResultOnlyAfterBoth ==
    InSong =>
        /\ (calls # <<>> \/ result # NoResult) =>
              /\ requests = <<DetailUrl(searched.song_id), PlayUrl(searched.song_id)>>
              /\ DetailHasSong
              /\ PlayEntryHandled
              /\ TheEntry.url.tag = "str"
              /\ TheEntry.url.v # ""
        /\ pc = "raised" =>
              /\ result = NoResult
              /\ \A i \in 1..Len(calls) : calls[i] \notin ContentCalls

C4_Witness ==
    /\ InSong /\ pc = "returned"
    /\ result # NoResult
    /\ calls = <<"create_author", "create_audio_content", "create_image_contents", "result">>

\* C5: the direct-mp3 and private outer-link handlers issue no request and
\* return a result whose content list is exactly one audio item holding the
\* matched URL unchanged, which is also the result's url.
C5_PassthroughNoRequest ==
    (searched \in DirectMp3Matches \cup PrivateOuterMatches)
    => /\ pc = "returned"
       /\ requests = <<>>
       /\ error = NoError
       /\ Len(result.contents) = 1
       /\ result.contents[1].type = "audio"
       /\ result.contents[1].url = searched.group0
       /\ result.url = searched.group0

C5_Witness ==
    /\ searched \in PrivateOuterMatches
    /\ pc = "returned"
    /\ result.url = "https://music.163.com/song/media/outer/url?id=186016.mp3"

NoRepeatedRequest ==
    \A i, j \in 1..Len(requests) : i # j => requests[i] # requests[j]

DetailHttpRaised ==
    /\ pc = "raised"
    /\ error = [type |-> "ClientError", msg |-> MsgDetailHttp(server.detail.status)]
    /\ requests = <<DetailUrl(searched.song_id)>>

PlayHttpRaised ==
    /\ pc = "raised"
    /\ error = [type |-> "ClientError", msg |-> MsgPlayHttp(server.play.status)]
    /\ requests = <<DetailUrl(searched.song_id), PlayUrl(searched.song_id)>>

\* C6 as stated: a response whose status is outside 200..399 raises the
\* ClientError carrying the status at once; no endpoint is requested twice
\* and a failed detail call is never followed by the playback call.
C6_Non2xx3xxRaises ==
    /\ NoRepeatedRequest
    /\ (DetailHandled /\ server.detail.status \notin 200..399) => DetailHttpRaised
    /\ (InSong /\ Finished /\ Len(requests) = 2 /\ server.play.status \notin 200..399)
          => PlayHttpRaised

\* C6 amended: a response whose status is 400 or more raises the ClientError
\* carrying the status at once; no endpoint is requested twice and a failed
\* detail call is never followed by the playback call.
C6_Status400Raises ==
    /\ NoRepeatedRequest
    /\ (DetailHandled /\ server.detail.status >= 400) => DetailHttpRaised
    /\ (InSong /\ Finished /\ Len(requests) = 2 /\ server.play.status >= 400)
          => PlayHttpRaised

C6_Witness ==
    /\ InSong /\ pc = "raised"
    /\ Len(requests) = 2
    /\ server.play.status = 400
    /\ error.type = "ClientError"

\* C7: when the detail response carries a song and the playback response a
\* non-empty url, no shape of the optional metadata of the first song (alias,
\* album, album name, picUrl, artists, artist name, artist avatar: absent,
\* null or empty, or a value) makes the handler fail; it returns a result.
\* The duration is not among those fields and is taken to be absent or a number.
C7_MetadataNeverFails ==
    (/\ InSong /\ Finished
     /\ DetailHasSong
     /\ TheSong.duration # None
     /\ server.play.status < 400
     /\ server.play.json.v.data.tag = "list"
     /\ server.play.json.v.data.v # <<>>
     /\ ~EntryHasNoUrl)
    => (pc = "returned" /\ error = NoError)

\* C8: a returned _parse_song result lists the cover image, when the song's
\* picUrl is a non-empty string, as picUrl with "?param=640y640" appended,
\* followed by the audio item; without a picUrl the list is the audio item alone.
C8_CoverBeforeAudio ==
    (InSong /\ pc = "returned")
    => LET album == TheSong.album
           pic == IF album = Absent THEN Absent ELSE album.v.picUrl
           n == Len(result.contents)
       IN  /\ result.contents[n].type = "audio"
           /\ result.contents[n].url = TheEntry.url.v
           /\ Cardinality({i \in 1..n : result.contents[i].type = "audio"}) = 1
           /\ IF pic \notin {Absent, None, Str("")}
              THEN /\ n = 2
                   /\ result.contents[1] = [type |-> "image", url |-> pic.v \o "?param=640y640"]
              ELSE n = 1

C8_Witness ==
    /\ InSong /\ pc = "returned"
    /\ Len(result.contents) = 2
    /\ result.contents[1].url = "http://example/cover.jpg?param=640y640"

\* C9: the audio item's duration is the song's duration in milliseconds
\* floor-divided by 1000: the largest whole number of seconds not above it;
\* 125499 ms gives 125 and an absent duration gives 0.
C9_DurationFloor ==
    (InSong /\ pc = "returned")
    => LET d == TheSong.duration
           ms == IF d = Absent THEN 0 ELSE d.v
           sec == result.contents[Len(result.contents)].duration
       IN  /\ sec * 1000 <= ms
           /\ ms < (sec + 1) * 1000
           /\ (ms = 125499 => sec = 125)
           /\ (d = Absent => sec = 0)

C9_Witness ==
    /\ InSong /\ pc = "returned"
    /\ TheSong.duration = Num(1999)
    /\ result.contents[Len(result.contents)].duration = 1

HasNamedArtist(artists) ==
    /\ artists.tag = "list"
    /\ \E i \in 1..Len(artists.v) :
          artists.v[i].v.name \notin {Absent, None, Str("")}

\* C10: a returned _parse_song result has an author only if at least one
\* artist has a non-empty name; the author's name is then the artist names
\* joined with " / " in list order and its avatar the first artist's
\* img1v1Url, empty when absent.
C10_AuthorOnlyWhenNamed ==
    (InSong /\ pc = "returned" /\ result.author # None)
    => LET artists == TheSong.artists
       IN  /\ HasNamedArtist(artists)
           /\ result.author.name = Join(" / ", ArNames(artists))
           /\ result.author.avatar =
                 (IF artists.v[1].v.img1v1Url = Absent THEN Str("")
                  ELSE artists.v[1].v.img1v1Url)

====
